---- MODULE Spec2Model ----
(***************************************************************************)
(* A model of package ufunc (mark-summerfield/ufunc): the range functions  *)
(* Map, Merge, Zip, ZipLongest, Range/RangeX and Spans, each driven by a   *)
(* single consumer that may stop the iteration at any element, and the     *)
(* slice functions HasPrefix, HasSuffix, LastIndex, LastIndexFunc, Reduce. *)
(*                                                                         *)
(* One behaviour is one call of one function (fn), followed by the         *)
(* consumer ranging over the returned iter.Seq.  A source handed to a      *)
(* combinator is a finite iter.Seq, written as the sequence of the         *)
(* elements it produces; pos[k] is how far its pull handle has advanced.   *)
(***************************************************************************)
EXTENDS Integers, Sequences, FiniteSets, TLC

\* ---------------------------------------------------------------- bounds
MaxSources == 2
MaxLen == 2
MaxAbs == 2
MaxStep == 3
MaxSlice == 4
MaxStride == 3
MaxIters == 2

\* ------------------------------------------------------ program constants
\* `var zero E`: the zero value of the element type.
Zero == 0
\* RangeX[N] instantiated at N = int8, the narrowest ureal.SignedNumber.
Width == 8

MinInt == -(2 ^ (Width - 1))
MaxInt == 2 ^ (Width - 1) - 1

\* Signed two's complement wrap-around of Go's integer + and -.
Wrap(x) == ((x + 2 ^ (Width - 1)) % (2 ^ Width)) - 2 ^ (Width - 1)

\* ------------------------------------------------------------ input sets
Elems == {Zero, Zero + 1}

SeqsUpTo(S, n) == UNION {[1..m -> S] : m \in 0..n}

Sources == SeqsUpTo(SeqsUpTo(Elems, MaxLen), MaxSources)

RangeArgs == (MinInt..(MinInt + MaxAbs)) \cup ((-MaxAbs)..MaxAbs)
                \cup ((MaxInt - MaxAbs)..MaxInt)

Steps == (-1)..MaxStep

Slices == SeqsUpTo(Elems, MaxSlice)

Strides == (-1)..MaxStride


VARIABLES
    fn,        \* the function called
    pc,        \* where control is
    rfns,      \* Merge/Zip/ZipLongest: the sources
    pos,       \* per source: elements its pull handle has delivered
    npulls,    \* per source: calls of pull()
    stopped,   \* per source: stop() has been called
    oks,       \* Merge: the oks slice
    i,         \* the loop index (1-based over pulls; 0-based in Spans)
    element,   \* Merge: the element pulled and about to be yielded
    row,       \* Zip/ZipLongest: the row under construction
    okcount,   \* ZipLongest: the local oks counter
    out,       \* what the consumer has been handed in this iteration
    from,      \* Merge: the source each element of out was pulled from
    broke,     \* the consumer stopped the iteration (yield returned false)
    start,     \* RangeX: the captured start variable
    end,       \* RangeX: the captured end variable
    step,      \* RangeX: the captured step variable
    argStart,  \* RangeX: the value of start passed by the caller
    slice,     \* Spans: the slice argument
    stride,    \* Spans: the stride argument
    iter,      \* number of times the consumer has ranged over the Seq
    args,      \* Map and the slice functions: the arguments, by name
    jIdx,      \* HasSuffix: the index j into values
    accumulator, \* Reduce: the accumulator parameter
    calls,     \* Map: the argument of each call of mapper so far
    result     \* the value returned by a slice function

vars == <<fn, pc, rfns, pos, npulls, stopped, oks, i, element, row, okcount,
          out, from, broke, start, end, step, argStart, slice, stride, iter,
          args, jIdx, accumulator, calls, result>>

combVars == <<rfns, pos, npulls, stopped, oks, element, row, okcount, from>>
rangeVars == <<start, end, step, argStart>>
spansVars == <<slice, stride>>
sliceVars == <<args, jIdx, accumulator, calls, result>>

N == Len(rfns)

IsCombinator == fn \in {"Merge", "Zip", "ZipLongest"}
IsRange == fn \in {"Range", "RangeX"}

\* One more than the longest output a finite, non-overflowing input of the
\* model produces: a consumer breaks out of its loop at the latest when it
\* has been handed this many elements.
MaxConsume ==
    CASE IsCombinator -> MaxSources * MaxLen + 1
      [] IsRange -> 2 * MaxAbs + 1
      [] OTHER -> MaxSlice + 1

\* The consumer's loop body: it goes on (yield returns true) or breaks
\* (yield returns false); n is the number of elements it has been handed.
ConsumerGoesOn(n) == IF n < MaxConsume THEN BOOLEAN ELSE {FALSE}

\* ------------------------------------------------------------- iter.Pull
\* pull() on source k: (element, true) while the source has elements,
\* (zero, false) from then on.
PullOk(k) == pos[k] < Len(rfns[k])
PullElem(k) == rfns[k][pos[k] + 1]

\* Mutant of AfterPull: a pull takes two elements out of the source, so
\* that one of them is buffered.
AfterPullAhead(k) == IF PullOk(k) THEN [pos EXCEPT ![k] = @ + 2] ELSE pos

AfterPull(k) == IF PullOk(k) THEN [pos EXCEPT ![k] = @ + 1] ELSE pos

\* iter.Pull(rfn) for every rfn: fresh handles, nothing pulled or stopped.
NewPulls ==
    /\ pos' = [k \in 1..N |-> 0]
    /\ npulls' = [k \in 1..N |-> 0]
    /\ stopped' = [k \in 1..N |-> FALSE]

\* Mutant of DeferredStops: only the handles that were pulled are stopped.
StopsOfPulledOnly == [k \in 1..N |-> npulls[k] > 0]

\* The deferred stop() calls, one per source, run when the function returns.
DeferredStops == [k \in 1..N |-> TRUE]

\* Mutant of Return: when the consumer breaks, the loops go on.
ReturnKeepsRunning(byConsumer) ==
    /\ pc' = (IF byConsumer THEN "inner" ELSE "done")
    /\ broke' = byConsumer
    /\ stopped' = DeferredStops

\* return from the iterator function: the defers run, the iteration is over.
Return(byConsumer) ==
    /\ pc' = "done"
    /\ broke' = byConsumer
    /\ stopped' = DeferredStops

\* ------------------------------------------------------------------ Init
InitCommon ==
    /\ i = 0 /\ element = Zero /\ row = <<>> /\ okcount = 0
    /\ out = <<>> /\ from = <<>> /\ broke = FALSE /\ iter = 0
    /\ pos = <<>> /\ npulls = <<>> /\ stopped = <<>> /\ oks = <<>>
    /\ jIdx = 0 /\ accumulator = Zero /\ calls = <<>> /\ result = "none"

InitCombinator ==
    /\ fn \in {"Merge", "Zip", "ZipLongest"}
    /\ rfns \in Sources
    /\ pc = "ready"
    /\ start = 0 /\ end = 0 /\ step = 0 /\ argStart = 0
    /\ slice = <<>> /\ stride = 0
    /\ args = <<>>
    /\ InitCommon

InitRange ==
    /\ fn \in {"Range", "RangeX"}
    /\ start \in RangeArgs /\ end \in RangeArgs
    /\ step \in (IF fn = "Range" THEN {0} ELSE Steps)
    /\ argStart = start
    /\ pc = (IF fn = "Range" THEN "call" ELSE "callX")
    /\ rfns = <<>> /\ slice = <<>> /\ stride = 0
    /\ args = <<>>
    /\ InitCommon

InitSpans ==
    /\ fn = "Spans"
    /\ slice \in Slices /\ stride \in Strides
    /\ pc = "call"
    /\ rfns = <<>>
    /\ start = 0 /\ end = 0 /\ step = 0 /\ argStart = 0
    /\ args = <<>>
    /\ InitCommon

\* mapper func(S) (T, bool): any function from elements to (target, ok).
Mappers == [Elems -> Elems \X BOOLEAN]

InitMap ==
    /\ fn = "Map"
    /\ args \in [sources : Slices, mapper : Mappers]
    /\ pc = "ready"
    /\ rfns = <<>> /\ slice = <<>> /\ stride = 0
    /\ start = 0 /\ end = 0 /\ step = 0 /\ argStart = 0
    /\ InitCommon

\* The state before a call of a slice function with arguments a.
InitSliceCall(f, argSet) ==
    /\ fn = f
    /\ args \in argSet
    /\ pc = "call"
    /\ rfns = <<>> /\ slice = <<>> /\ stride = 0
    /\ start = 0 /\ end = 0 /\ step = 0 /\ argStart = 0
    /\ InitCommon

InitHasPrefix == InitSliceCall("HasPrefix", [values : Slices, prefix : Slices])
InitHasSuffix == InitSliceCall("HasSuffix", [values : Slices, suffix : Slices])

\* found func(E) bool: any predicate on the elements.
Predicates == [Elems -> BOOLEAN]

InitLastIndex ==
    \/ InitSliceCall("LastIndex", [values : Slices, value : Elems])
    \/ InitSliceCall("LastIndexFunc", [values : Slices, found : Predicates])

\* reduce func(E, A) A: two functions that are not commutative; "horner"
\* encodes the sequence of its applications in its result.
Reducers == {"sub", "horner"}
ApplyReduce(f, e, a) == IF f = "sub" THEN e - a ELSE 3 * a + e + 1

InitReduce ==
    InitSliceCall("Reduce",
                  [elements : Slices, reduce : Reducers, accumulator : Elems])

Init ==
    \/ InitCombinator \/ InitRange \/ InitSpans \/ InitMap
    \/ InitHasPrefix \/ InitHasSuffix \/ InitLastIndex \/ InitReduce

\* ----------------------------------------------------------------- Merge
\* Mutant of Contains: true only when every entry is v, so that the sweeps
\* end as soon as one source is exhausted.
ContainsAll(s, v) == \A k \in 1..Len(s) : s[k] = v

\* slices.Contains(oks, true)
Contains(s, v) == \E k \in 1..Len(s) : s[k] = v

MergeStart ==
    /\ fn = "Merge" /\ pc = "ready"
    /\ NewPulls
    /\ oks' = [k \in 1..N |-> TRUE]
    /\ iter' = iter + 1
    /\ pc' = "outer"
    /\ UNCHANGED <<fn, rfns, i, element, row, okcount, out, from, broke>>
    /\ UNCHANGED <<rangeVars, spansVars, sliceVars>>

\* for slices.Contains(oks, true) { for i, pull := range pulls {
MergeOuter ==
    /\ fn = "Merge" /\ pc = "outer"
    /\ IF Contains(oks, TRUE)
         THEN /\ i' = 1 /\ pc' = "inner"
              /\ UNCHANGED <<stopped, broke>>
         ELSE /\ Return(FALSE)
              /\ UNCHANGED i
    /\ UNCHANGED <<fn, rfns, pos, npulls, oks, element, row, okcount, out,
                   from, iter>>
    /\ UNCHANGED <<rangeVars, spansVars, sliceVars>>

\* Mutant of MergePull: oks[i] is not consulted, every source is pulled in
\* every sweep.
MergePullAlways ==
    /\ fn = "Merge" /\ pc = "inner"
    /\ IF i > N
         THEN /\ pc' = "outer"
              /\ UNCHANGED <<i, pos, npulls, oks, element>>
         ELSE /\ npulls' = [npulls EXCEPT ![i] = @ + 1]
              /\ pos' = AfterPull(i)
              /\ IF PullOk(i)
                   THEN /\ element' = PullElem(i)
                        /\ pc' = "yield"
                        /\ UNCHANGED <<i, oks>>
                   ELSE /\ oks' = [oks EXCEPT ![i] = FALSE]
                        /\ i' = i + 1
                        /\ UNCHANGED <<pc, element>>
    /\ UNCHANGED <<fn, rfns, stopped, row, okcount, out, from, broke, iter>>
    /\ UNCHANGED <<rangeVars, spansVars, sliceVars>>

\* if oks[i] { if element, ok := pull(); ok {...} else { oks[i] = false } }
MergePull ==
    /\ fn = "Merge" /\ pc = "inner"
    /\ IF i > N
         THEN /\ pc' = "outer"
              /\ UNCHANGED <<i, pos, npulls, oks, element>>
         ELSE IF ~oks[i]
           THEN /\ i' = i + 1
                /\ UNCHANGED <<pc, pos, npulls, oks, element>>
           ELSE /\ npulls' = [npulls EXCEPT ![i] = @ + 1]
                /\ pos' = AfterPull(i)
                /\ IF PullOk(i)
                     THEN /\ element' = PullElem(i)
                          /\ pc' = "yield"
                          /\ UNCHANGED <<i, oks>>
                     ELSE /\ oks' = [oks EXCEPT ![i] = FALSE]
                          /\ i' = i + 1
                          /\ UNCHANGED <<pc, element>>
    /\ UNCHANGED <<fn, rfns, stopped, row, okcount, out, from, broke, iter>>
    /\ UNCHANGED <<rangeVars, spansVars, sliceVars>>

\* Mutant of MergeYield: after a yield the same source is pulled again, so
\* that each source is drained before the next one is touched.
MergeYieldSameSource ==
    /\ fn = "Merge" /\ pc = "yield"
    /\ out' = Append(out, element)
    /\ from' = Append(from, i)
    /\ \E goesOn \in ConsumerGoesOn(Len(out) + 1) :
         IF goesOn
           THEN /\ pc' = "inner"
                /\ UNCHANGED <<i, stopped, broke>>
           ELSE /\ Return(TRUE)
                /\ UNCHANGED i
    /\ UNCHANGED <<fn, rfns, pos, npulls, oks, element, row, okcount, iter>>
    /\ UNCHANGED <<rangeVars, spansVars, sliceVars>>

\* if !yield(element) { return }
MergeYield ==
    /\ fn = "Merge" /\ pc = "yield"
    /\ out' = Append(out, element)
    /\ from' = Append(from, i)
    /\ \E goesOn \in ConsumerGoesOn(Len(out) + 1) :
         IF goesOn
           THEN /\ i' = i + 1 /\ pc' = "inner"
                /\ UNCHANGED <<stopped, broke>>
           ELSE /\ Return(TRUE)
                /\ UNCHANGED i
    /\ UNCHANGED <<fn, rfns, pos, npulls, oks, element, row, okcount, iter>>
    /\ UNCHANGED <<rangeVars, spansVars, sliceVars>>

\* ------------------------------------------------------------------- Zip
ZipStart ==
    /\ fn = "Zip" /\ pc = "ready"
    /\ NewPulls
    /\ iter' = iter + 1
    /\ row' = <<>> /\ i' = 1
    /\ pc' = "inner"
    /\ UNCHANGED <<fn, rfns, oks, element, okcount, out, from, broke>>
    /\ UNCHANGED <<rangeVars, spansVars, sliceVars>>

\* Mutant of ZipPull: an exhausted source is passed over instead of ending
\* the iteration, so that a partial row is built.
ZipPullSkips ==
    /\ fn = "Zip" /\ pc = "inner" /\ i <= N
    /\ npulls' = [npulls EXCEPT ![i] = @ + 1]
    /\ pos' = AfterPull(i)
    /\ row' = (IF PullOk(i) THEN Append(row, PullElem(i)) ELSE row)
    /\ i' = i + 1
    /\ UNCHANGED <<fn, pc, rfns, stopped, broke, oks, element, okcount, out,
                   from, iter>>
    /\ UNCHANGED <<rangeVars, spansVars, sliceVars>>

\* Mutant of ZipPull: the sources are pulled in the reverse of the order
\* they were passed.
ZipPullReversed ==
    /\ fn = "Zip" /\ pc = "inner" /\ i <= N
    /\ LET k == N + 1 - i
       IN  /\ npulls' = [npulls EXCEPT ![k] = @ + 1]
           /\ pos' = AfterPull(k)
           /\ IF PullOk(k)
                THEN /\ row' = Append(row, PullElem(k))
                     /\ i' = i + 1
                     /\ UNCHANGED <<pc, stopped, broke>>
                ELSE /\ Return(FALSE)
                     /\ UNCHANGED <<row, i>>
    /\ UNCHANGED <<fn, rfns, oks, element, okcount, out, from, iter>>
    /\ UNCHANGED <<rangeVars, spansVars, sliceVars>>

\* Mutant of ZipPull: when a source is exhausted the remaining sources of
\* the round are pulled as well before the iteration ends.
ZipPullFinishesRound ==
    /\ fn = "Zip" /\ pc = "inner" /\ i <= N
    /\ IF PullOk(i)
         THEN /\ npulls' = [npulls EXCEPT ![i] = @ + 1]
              /\ pos' = AfterPull(i)
              /\ row' = Append(row, PullElem(i))
              /\ i' = i + 1
              /\ UNCHANGED <<pc, stopped, broke>>
         ELSE /\ npulls' = [k \in 1..N |->
                              IF k >= i THEN npulls[k] + 1 ELSE npulls[k]]
              /\ pos' = [k \in 1..N |->
                           IF k >= i /\ PullOk(k) THEN pos[k] + 1 ELSE pos[k]]
              /\ Return(FALSE)
              /\ UNCHANGED <<row, i>>
    /\ UNCHANGED <<fn, rfns, oks, element, okcount, out, from, iter>>
    /\ UNCHANGED <<rangeVars, spansVars, sliceVars>>

\* if element, ok := pull(); ok { row = append(row, element) }
\* else { return }
ZipPull ==
    /\ fn = "Zip" /\ pc = "inner" /\ i <= N
    /\ npulls' = [npulls EXCEPT ![i] = @ + 1]
    /\ pos' = AfterPull(i)
    /\ IF PullOk(i)
         THEN /\ row' = Append(row, PullElem(i))
              /\ i' = i + 1
              /\ UNCHANGED <<pc, stopped, broke>>
         ELSE /\ Return(FALSE)
              /\ UNCHANGED <<row, i>>
    /\ UNCHANGED <<fn, rfns, oks, element, okcount, out, from, iter>>
    /\ UNCHANGED <<rangeVars, spansVars, sliceVars>>

\* if !yield(row) { return }; then row := make([]E, 0, len(pulls))
ZipYield ==
    /\ fn = "Zip" /\ pc = "inner" /\ i > N
    /\ out' = Append(out, row)
    /\ \E goesOn \in ConsumerGoesOn(Len(out) + 1) :
         IF goesOn
           THEN /\ row' = <<>> /\ i' = 1
                /\ UNCHANGED <<pc, stopped, broke>>
           ELSE /\ Return(TRUE)
                /\ UNCHANGED <<row, i>>
    /\ UNCHANGED <<fn, rfns, pos, npulls, oks, element, okcount, from, iter>>
    /\ UNCHANGED <<rangeVars, spansVars, sliceVars>>

\* ------------------------------------------------------------ ZipLongest
ZipLongestStart ==
    /\ fn = "ZipLongest" /\ pc = "ready"
    /\ NewPulls
    /\ iter' = iter + 1
    /\ row' = <<>> /\ okcount' = 0 /\ i' = 1
    /\ pc' = "inner"
    /\ UNCHANGED <<fn, rfns, oks, element, out, from, broke>>
    /\ UNCHANGED <<rangeVars, spansVars, sliceVars>>

\* Mutant of ZipLongestPull: an exhausted source adds nothing to the row.
ZipLongestPullNoPad ==
    /\ fn = "ZipLongest" /\ pc = "inner" /\ i <= N
    /\ npulls' = [npulls EXCEPT ![i] = @ + 1]
    /\ pos' = AfterPull(i)
    /\ IF PullOk(i)
         THEN /\ okcount' = okcount + 1
              /\ row' = Append(row, PullElem(i))
         ELSE UNCHANGED <<row, okcount>>
    /\ i' = i + 1
    /\ UNCHANGED <<fn, pc, rfns, stopped, oks, element, out, from, broke,
                   iter>>
    /\ UNCHANGED <<rangeVars, spansVars, sliceVars>>

\* if element, ok := pull(); ok { oks++; row = append(row, element) }
\* else { row = append(row, zero) }
ZipLongestPull ==
    /\ fn = "ZipLongest" /\ pc = "inner" /\ i <= N
    /\ npulls' = [npulls EXCEPT ![i] = @ + 1]
    /\ pos' = AfterPull(i)
    /\ IF PullOk(i)
         THEN /\ okcount' = okcount + 1
              /\ row' = Append(row, PullElem(i))
         ELSE /\ row' = Append(row, Zero)
              /\ UNCHANGED okcount
    /\ i' = i + 1
    /\ UNCHANGED <<fn, pc, rfns, stopped, oks, element, out, from, broke,
                   iter>>
    /\ UNCHANGED <<rangeVars, spansVars, sliceVars>>

\* if oks == 0 || !yield(row) { return }
ZipLongestYield ==
    /\ fn = "ZipLongest" /\ pc = "inner" /\ i > N
    /\ IF okcount = 0
         THEN /\ Return(FALSE)
              /\ UNCHANGED <<out, row, okcount, i>>
         ELSE /\ out' = Append(out, row)
              /\ \E goesOn \in ConsumerGoesOn(Len(out) + 1) :
                   IF goesOn
                     THEN /\ row' = <<>> /\ okcount' = 0 /\ i' = 1
                          /\ UNCHANGED <<pc, stopped, broke>>
                     ELSE /\ Return(TRUE)
                          /\ UNCHANGED <<row, okcount, i>>
    /\ UNCHANGED <<fn, rfns, pos, npulls, oks, element, from, iter>>
    /\ UNCHANGED <<rangeVars, spansVars, sliceVars>>

\* --------------------------------------------------------- Range, RangeX
\* return RangeX(start, end, 1)
RangeCall ==
    /\ fn = "Range" /\ pc = "call"
    /\ step' = 1
    /\ pc' = "callX"
    /\ UNCHANGED <<fn, i, out, broke, iter, start, end, argStart>>
    /\ UNCHANGED <<combVars, spansVars, sliceVars>>

\* Mutant of BadStep: a step of zero is let through.
NegativeStep(s) == s < 0

\* if step <= 0 { panic("step size must be > 0") }
BadStep(s) == s <= 0

RangeXCall ==
    /\ IsRange /\ pc = "callX"
    /\ pc' = (IF BadStep(step) THEN "panic" ELSE "ready")
    /\ UNCHANGED <<fn, i, out, broke, iter>>
    /\ UNCHANGED <<combVars, rangeVars, spansVars, sliceVars>>

\* The consumer ranges over the returned func: if start <= end {...} else
RangeXBegin ==
    /\ IsRange /\ pc \in {"ready", "done"} /\ iter < MaxIters
    /\ iter' = iter + 1
    /\ out' = <<>> /\ broke' = FALSE
    /\ pc' = (IF start <= end THEN "up" ELSE "down")
    /\ UNCHANGED <<fn, i>>
    /\ UNCHANGED <<combVars, rangeVars, spansVars, sliceVars>>

\* The loop variable of RangeX is the captured parameter start itself.
StepUp == Wrap(start + step)
StepDown == Wrap(start - step)

\* for ; start < end; start += step { if !yield(start) { return } }
RangeXUp ==
    /\ IsRange /\ pc = "up"
    /\ IF start < end
         THEN /\ out' = Append(out, start)
              /\ \E goesOn \in ConsumerGoesOn(Len(out) + 1) :
                   IF goesOn
                     THEN /\ start' = StepUp
                          /\ UNCHANGED <<pc, broke>>
                     ELSE /\ pc' = "done" /\ broke' = TRUE
                          /\ UNCHANGED start
         ELSE /\ pc' = "done" /\ broke' = FALSE
              /\ UNCHANGED <<out, start>>
    /\ UNCHANGED <<fn, i, iter, end, step, argStart>>
    /\ UNCHANGED <<combVars, spansVars, sliceVars>>

\* for ; start > end; start -= step { if !yield(start) { return } }
RangeXDown ==
    /\ IsRange /\ pc = "down"
    /\ IF start > end
         THEN /\ out' = Append(out, start)
              /\ \E goesOn \in ConsumerGoesOn(Len(out) + 1) :
                   IF goesOn
                     THEN /\ start' = StepDown
                          /\ UNCHANGED <<pc, broke>>
                     ELSE /\ pc' = "done" /\ broke' = TRUE
                          /\ UNCHANGED start
         ELSE /\ pc' = "done" /\ broke' = FALSE
              /\ UNCHANGED <<out, start>>
    /\ UNCHANGED <<fn, i, iter, end, step, argStart>>
    /\ UNCHANGED <<combVars, spansVars, sliceVars>>

\* ----------------------------------------------------------------- Spans
\* if stride <= 0 { panic("stride must be > 0") }
BadStride(s) == s <= 0

SpansCall ==
    /\ fn = "Spans" /\ pc = "call"
    /\ pc' = (IF BadStride(stride) THEN "panic" ELSE "ready")
    /\ UNCHANGED <<fn, i, out, broke, iter>>
    /\ UNCHANGED <<combVars, rangeVars, spansVars, sliceVars>>

\* The consumer ranges over the returned func: for i := 0; ...
SpansBegin ==
    /\ fn = "Spans" /\ pc \in {"ready", "done"} /\ iter < MaxIters
    /\ iter' = iter + 1
    /\ out' = <<>> /\ broke' = FALSE
    /\ i' = 0
    /\ pc' = "loop"
    /\ UNCHANGED fn
    /\ UNCHANGED <<combVars, rangeVars, spansVars, sliceVars>>

Min(a, b) == IF a < b THEN a ELSE b

\* Mutant of SpansAdvance: the loop moves on by one element.
SpansAdvanceByOne == i + 1

\* i += stride
SpansAdvance == i + stride

\* slice[i:min(i+stride, len(slice))], Go's 0-based half-open subslice.
Subslice(s, lo, hi) == SubSeq(s, lo + 1, hi)

\* for i := 0; i < len(slice); i += stride {
\*     subslice := slice[i:min(i+stride, len(slice))]
\*     if !yield(subslice, len(subslice) == stride) { return } }
SpansLoop ==
    /\ fn = "Spans" /\ pc = "loop"
    /\ IF i < Len(slice)
         THEN LET subslice == Subslice(slice, i, Min(i + stride, Len(slice)))
              IN  /\ out' = Append(out, <<subslice, Len(subslice) = stride>>)
                  /\ \E goesOn \in ConsumerGoesOn(Len(out) + 1) :
                       IF goesOn
                         THEN /\ i' = SpansAdvance
                              /\ UNCHANGED <<pc, broke>>
                         ELSE /\ pc' = "done" /\ broke' = TRUE
                              /\ UNCHANGED i
         ELSE /\ pc' = "done" /\ broke' = FALSE
              /\ UNCHANGED <<out, i>>
    /\ UNCHANGED <<fn, iter>>
    /\ UNCHANGED <<combVars, rangeVars, spansVars, sliceVars>>

\* ------------------------------------------------------------------- Map
\* The consumer ranges over the returned func: for _, source := range sources
MapBegin ==
    /\ fn = "Map" /\ pc = "ready"
    /\ iter' = iter + 1
    /\ i' = 0
    /\ pc' = "loop"
    /\ UNCHANGED <<fn, out, broke>>
    /\ UNCHANGED <<combVars, rangeVars, spansVars, sliceVars>>

\* Mutant of Kept: mapper's ok is not looked at.
KeptAlways(res) == TRUE

\* if target, ok := mapper(source); ok {
Kept(res) == res[2]

\* for _, source := range sources {
\*     if target, ok := mapper(source); ok { if !yield(target) { return } } }
MapLoop ==
    /\ fn = "Map" /\ pc = "loop"
    /\ IF i < Len(args.sources)
         THEN LET source == args.sources[i + 1]
                  res == args.mapper[source]
              IN  /\ calls' = Append(calls, <<source>>)
                  /\ IF Kept(res)
                       THEN /\ out' = Append(out, res[1])
                            /\ \E goesOn \in ConsumerGoesOn(Len(out) + 1) :
                                 IF goesOn
                                   THEN /\ i' = i + 1
                                        /\ UNCHANGED <<pc, broke>>
                                   ELSE /\ pc' = "done" /\ broke' = TRUE
                                        /\ UNCHANGED i
                       ELSE /\ i' = i + 1
                            /\ UNCHANGED <<pc, out, broke>>
         ELSE /\ pc' = "done" /\ broke' = FALSE
              /\ UNCHANGED <<out, i, calls>>
    /\ UNCHANGED <<fn, iter, args, jIdx, accumulator, result>>
    /\ UNCHANGED <<combVars, rangeVars, spansVars>>

\* ------------------------------------------------- HasPrefix, HasSuffix
\* s[idx] on a Go slice: a run-time panic unless 0 <= idx < len(s).
InRange(s, idx) == 0 <= idx /\ idx < Len(s)
At(s, idx) == s[idx + 1]

\* return v from a slice function
ReturnValue(v) == pc' = "done" /\ result' = v

\* for i := range len(prefix) {
HasPrefixCall ==
    /\ fn = "HasPrefix" /\ pc = "call"
    /\ i' = 0
    /\ pc' = "loop"
    /\ UNCHANGED <<fn, out, broke, iter, sliceVars>>
    /\ UNCHANGED <<combVars, rangeVars, spansVars>>

\* Mutant of PastEnd: the length of values is not looked at.
PastEndNever == FALSE

\* i == len(values)
PastEnd == i = Len(args.values)

\* if i == len(values) || values[i] != prefix[i] { return false }
\* ... return true
HasPrefixLoop ==
    /\ fn = "HasPrefix" /\ pc = "loop"
    /\ IF i < Len(args.prefix)
         THEN IF PastEnd
                THEN ReturnValue(FALSE) /\ UNCHANGED i
              ELSE IF ~InRange(args.values, i)
                THEN pc' = "panic" /\ UNCHANGED <<i, result>>
              ELSE IF At(args.values, i) # At(args.prefix, i)
                THEN ReturnValue(FALSE) /\ UNCHANGED i
              ELSE i' = i + 1 /\ UNCHANGED <<pc, result>>
         ELSE ReturnValue(TRUE) /\ UNCHANGED i
    /\ UNCHANGED <<fn, out, broke, iter, args, jIdx, accumulator, calls>>
    /\ UNCHANGED <<combVars, rangeVars, spansVars>>

\* Mutant of SuffixTooLong: the lengths are not compared.
SuffixNeverTooLong == FALSE

\* len(suffix) > len(values)
SuffixTooLong == Len(args.suffix) > Len(args.values)

\* if len(suffix) > len(values) { return false }
\* j := len(values) - 1; for i := len(suffix) - 1; ...
HasSuffixCall ==
    /\ fn = "HasSuffix" /\ pc = "call"
    /\ IF SuffixTooLong
         THEN ReturnValue(FALSE) /\ UNCHANGED <<i, jIdx>>
         ELSE /\ jIdx' = Len(args.values) - 1
              /\ i' = Len(args.suffix) - 1
              /\ pc' = "loop"
              /\ UNCHANGED result
    /\ UNCHANGED <<fn, out, broke, iter, args, accumulator, calls>>
    /\ UNCHANGED <<combVars, rangeVars, spansVars>>

\* for ...; i >= 0; i-- { if values[j] != suffix[i] { return false }; j-- }
\* return true
HasSuffixLoop ==
    /\ fn = "HasSuffix" /\ pc = "loop"
    /\ IF i >= 0
         THEN IF ~InRange(args.values, jIdx)
                THEN pc' = "panic" /\ UNCHANGED <<i, jIdx, result>>
              ELSE IF At(args.values, jIdx) # At(args.suffix, i)
                THEN ReturnValue(FALSE) /\ UNCHANGED <<i, jIdx>>
              ELSE /\ i' = i - 1 /\ jIdx' = jIdx - 1
                   /\ UNCHANGED <<pc, result>>
         ELSE ReturnValue(TRUE) /\ UNCHANGED <<i, jIdx>>
    /\ UNCHANGED <<fn, out, broke, iter, args, accumulator, calls>>
    /\ UNCHANGED <<combVars, rangeVars, spansVars>>

\* ----------------------------------------------- LastIndex, LastIndexFunc
\* Mutant of Rightmost: the scan starts one element short of the end.
RightmostButOne == Len(args.values) - 2

\* i := len(values) - 1
Rightmost == Len(args.values) - 1

LastIndexCall ==
    /\ fn = "LastIndex" /\ pc = "call"
    /\ i' = Rightmost
    /\ pc' = "loop"
    /\ UNCHANGED <<fn, out, broke, iter, sliceVars>>
    /\ UNCHANGED <<combVars, rangeVars, spansVars>>

\* for ...; i >= 0; i-- { if values[i] == value { return i } }; return -1
LastIndexLoop ==
    /\ fn = "LastIndex" /\ pc = "loop"
    /\ IF i >= 0
         THEN IF ~InRange(args.values, i)
                THEN pc' = "panic" /\ UNCHANGED <<i, result>>
              ELSE IF At(args.values, i) = args.value
                THEN ReturnValue(i) /\ UNCHANGED i
              ELSE i' = i - 1 /\ UNCHANGED <<pc, result>>
         ELSE ReturnValue(-1) /\ UNCHANGED i
    /\ UNCHANGED <<fn, out, broke, iter, args, jIdx, accumulator, calls>>
    /\ UNCHANGED <<combVars, rangeVars, spansVars>>

LastIndexFuncCall ==
    /\ fn = "LastIndexFunc" /\ pc = "call"
    /\ i' = Rightmost
    /\ pc' = "loop"
    /\ UNCHANGED <<fn, out, broke, iter, sliceVars>>
    /\ UNCHANGED <<combVars, rangeVars, spansVars>>

\* for ...; i >= 0; i-- { if found(values[i]) { return i } }; return -1
LastIndexFuncLoop ==
    /\ fn = "LastIndexFunc" /\ pc = "loop"
    /\ IF i >= 0
         THEN IF ~InRange(args.values, i)
                THEN pc' = "panic" /\ UNCHANGED <<i, result>>
              ELSE IF args.found[At(args.values, i)]
                THEN ReturnValue(i) /\ UNCHANGED i
              ELSE i' = i - 1 /\ UNCHANGED <<pc, result>>
         ELSE ReturnValue(-1) /\ UNCHANGED i
    /\ UNCHANGED <<fn, out, broke, iter, args, jIdx, accumulator, calls>>
    /\ UNCHANGED <<combVars, rangeVars, spansVars>>

\* ---------------------------------------------------------------- Reduce
\* for _, element := range elements {
ReduceCall ==
    /\ fn = "Reduce" /\ pc = "call"
    /\ accumulator' = args.accumulator
    /\ i' = 0
    /\ pc' = "loop"
    /\ UNCHANGED <<fn, out, broke, iter, args, jIdx, calls, result>>
    /\ UNCHANGED <<combVars, rangeVars, spansVars>>

\* Mutant of Combine: the accumulator is passed first, the element second.
CombineSwapped(e, a) == ApplyReduce(args.reduce, a, e)

\* reduce(element, accumulator)
Combine(e, a) == ApplyReduce(args.reduce, e, a)

\* accumulator = reduce(element, accumulator) ... return accumulator
ReduceLoop ==
    /\ fn = "Reduce" /\ pc = "loop"
    /\ IF i < Len(args.elements)
         THEN /\ accumulator' = Combine(At(args.elements, i), accumulator)
              /\ i' = i + 1
              /\ UNCHANGED <<pc, result>>
         ELSE /\ ReturnValue(accumulator)
              /\ UNCHANGED <<i, accumulator>>
    /\ UNCHANGED <<fn, out, broke, iter, args, jIdx, calls>>
    /\ UNCHANGED <<combVars, rangeVars, spansVars>>

Next ==
    \/ MergeStart
    \/ MergeOuter
    \/ MergePull
    \/ MergeYield
    \/ ZipStart
    \/ ZipPull
    \/ ZipYield
    \/ ZipLongestStart
    \/ ZipLongestPull
    \/ ZipLongestYield
    \/ RangeCall
    \/ RangeXCall
    \/ RangeXBegin
    \/ RangeXUp
    \/ RangeXDown
    \/ SpansCall
    \/ SpansBegin
    \/ SpansLoop
    \/ MapBegin
    \/ MapLoop
    \/ HasPrefixCall
    \/ HasPrefixLoop
    \/ HasSuffixCall
    \/ HasSuffixLoop
    \/ LastIndexCall
    \/ LastIndexLoop
    \/ LastIndexFuncCall
    \/ LastIndexFuncLoop
    \/ ReduceCall
    \/ ReduceLoop

Spec == Init /\ [][Next]_vars

\* One specification per function, for the properties of that function.
InitMerge == InitCombinator /\ fn = "Merge"
NextMerge == MergeStart \/ MergeOuter \/ MergePull \/ MergeYield
SpecMerge == InitMerge /\ [][NextMerge]_vars

InitZip == InitCombinator /\ fn = "Zip"
NextZip == ZipStart \/ ZipPull \/ ZipYield
SpecZip == InitZip /\ [][NextZip]_vars

InitZipLongest == InitCombinator /\ fn = "ZipLongest"
NextZipLongest == ZipLongestStart \/ ZipLongestPull \/ ZipLongestYield
SpecZipLongest == InitZipLongest /\ [][NextZipLongest]_vars

NextRange ==
    RangeCall \/ RangeXCall \/ RangeXBegin \/ RangeXUp \/ RangeXDown
SpecRange == InitRange /\ [][NextRange]_vars

NextSpans == SpansCall \/ SpansBegin \/ SpansLoop
SpecSpans == InitSpans /\ [][NextSpans]_vars

NextMap == MapBegin \/ MapLoop
SpecMap == InitMap /\ [][NextMap]_vars

NextHasPrefix == HasPrefixCall \/ HasPrefixLoop
SpecHasPrefix == InitHasPrefix /\ [][NextHasPrefix]_vars

NextHasSuffix == HasSuffixCall \/ HasSuffixLoop
SpecHasSuffix == InitHasSuffix /\ [][NextHasSuffix]_vars

NextLastIndex ==
    LastIndexCall \/ LastIndexLoop \/ LastIndexFuncCall \/ LastIndexFuncLoop
SpecLastIndex == InitLastIndex /\ [][NextLastIndex]_vars

NextReduce == ReduceCall \/ ReduceLoop
SpecReduce == InitReduce /\ [][NextReduce]_vars

\* ====================================================== properties checked
IsPrefix(s, t) == Len(s) <= Len(t) /\ s = SubSeq(t, 1, Len(s))

RECURSIVE SumLen(_)
SumLen(srcs) ==
    IF srcs = <<>> THEN 0 ELSE Len(Head(srcs)) + SumLen(Tail(srcs))

\* Exhausted: the iteration ran to its end and was not stopped by the consumer.
Exhausted == pc = "done" /\ ~broke

Lens == {Len(rfns[k]) : k \in 1..N}
MinLenOf == CHOOSE m \in Lens : \A l \in Lens : m <= l
MaxLenOf == IF N = 0 THEN 0 ELSE CHOOSE m \in Lens : \A l \in Lens : m >= l

\* C1: Zip called with zero sources produces an empty sequence: the consumer
\* is never handed a row.
C1_ZipNoSourcesIsEmpty == (fn = "Zip" /\ N = 0) => out = <<>>

\* The k-th elements of the sources that have one, in source order.
RECURSIVE RoundOf(_, _, _)
RoundOf(srcs, k, j) ==
    IF j > Len(srcs) THEN <<>>
    ELSE (IF k <= Len(srcs[j]) THEN <<srcs[j][k]>> ELSE <<>>)
           \o RoundOf(srcs, k, j + 1)

RECURSIVE RoundRobinFrom(_, _)
RoundRobinFrom(srcs, k) ==
    IF RoundOf(srcs, k, 1) = <<>> THEN <<>>
    ELSE RoundOf(srcs, k, 1) \o RoundRobinFrom(srcs, k + 1)

RoundRobin(srcs) == RoundRobinFrom(srcs, 1)

IndexInSource(p) == Cardinality({q \in 1..p : from[q] = from[p]})

C4_ZipRows ==
    fn = "Zip" =>
      /\ N >= 1 => Len(out) <= MinLenOf
      /\ \A r \in 1..Len(out) :
            /\ Len(out[r]) = N
            /\ \A k \in 1..N : out[r][k] = rfns[k][r]
      /\ Exhausted => (N >= 1 /\ Len(out) = MinLenOf)

\* A complete Zip that threw away a partly built row.
C4_Witness ==
    /\ fn = "Zip" /\ Exhausted /\ N >= 2
    /\ Len(out) >= 1 /\ Len(row) >= 1
    /\ \E j, k \in 1..N : Len(rfns[j]) < Len(rfns[k])

Abs(x) == IF x < 0 THEN -x ELSE x
CeilDiv(a, b) == (a + b - 1) \div b

\* The progression RangeX(argStart, end, step) stands for, over the
\* (unbounded) integers: ceil(|end - argStart| / step) elements from
\* argStart in steps of +step (argStart <= end) or -step (argStart > end).
ProgressionLen == CeilDiv(Abs(end - argStart), step)
ProgressionAt(p) ==
    IF argStart <= end THEN argStart + (p - 1) * step
                       ELSE argStart - (p - 1) * step
Progression == [p \in 1..ProgressionLen |-> ProgressionAt(p)]

\* The arguments for which no element and no final increment of the
\* progression leaves the range of the element type.
NoOverflow ==
    IF argStart <= end THEN argStart + ProgressionLen * step <= MaxInt
                       ELSE argStart - ProgressionLen * step >= MinInt

\* C6: the first iteration over RangeX(start, end, step), step > 0, yields
\* the progression from start towards end: at most ceil(|end-start|/step)
\* elements, the p-th being start +/- (p-1)*step and strictly before end,
\* and exactly that many when it runs to its end.
C6_RangeXProgression ==
    (IsRange /\ iter = 1 /\ step > 0) =>
      /\ Len(out) <= ProgressionLen
      /\ \A p \in 1..Len(out) :
            /\ out[p] = ProgressionAt(p)
            /\ IF argStart <= end THEN out[p] < end ELSE out[p] > end
      /\ Exhausted => Len(out) = ProgressionLen

\* The same statement for the arguments whose progression stays within the
\* element type: the first iteration then is the progression.
RangeXProgressionWithoutOverflow ==
    (IsRange /\ step > 0 /\ NoOverflow) => C6_RangeXProgression

\* C7: a later iteration over the same RangeX sequence yields the full
\* progression from start again (stated for arguments without overflow).
C7_RangeXRestartable ==
    (IsRange /\ iter >= 2 /\ step > 0 /\ NoOverflow) =>
      /\ IsPrefix(out, Progression)
      /\ Exhausted => out = Progression

RECURSIVE Flatten(_)
Flatten(ss) == IF ss = <<>> THEN <<>> ELSE Head(ss) \o Flatten(Tail(ss))

Windows == [r \in 1..Len(out) |-> out[r][1]]

\* C8: the windows Spans has yielded are consecutive, non-overlapping and
\* start at index 0 (their concatenation is a prefix of the slice, the whole
\* slice when run to exhaustion); no window is empty; every window has
\* stride elements except possibly the one that ends the slice; a window's
\* boolean is false exactly when it is shorter than stride.
C8_SpansPartition ==
    fn = "Spans" =>
      /\ IsPrefix(Flatten(Windows), slice)
      /\ \A r \in 1..Len(out) :
            /\ Len(Windows[r]) >= 1
            /\ Len(Windows[r]) <= stride
            /\ r < Len(out) => Len(Windows[r]) = stride
            /\ Len(Windows[r]) < stride => Flatten(Windows) = slice
            /\ out[r][2] = FALSE <=> Len(Windows[r]) < stride
      /\ Exhausted => Flatten(Windows) = slice

\* A complete Spans whose last window is short.
C8_Witness ==
    /\ fn = "Spans" /\ Exhausted
    /\ Len(out) >= 2 /\ stride >= 2
    /\ out[Len(out)][2] = FALSE /\ out[1][2] = TRUE

\* C9: when the output sequence of Merge, Zip or ZipLongest has ended, by
\* exhaustion or because the consumer stopped, stop() has been called on
\* the pull handle of every source.
C9_AllPullsStopped ==
    (IsCombinator /\ pc = "done") => \A k \in 1..N : stopped[k]

\* The consumer stopped while a source had not been pulled at all.
C9_Witness ==
    /\ IsCombinator /\ pc = "done" /\ broke
    /\ \E j, k \in 1..N : npulls[j] > 0 /\ npulls[k] = 0 /\ stopped[k]

\* C10: once RangeX has been called with step <= 0, or Spans with
\* stride <= 0, the call has panicked: no sequence is returned, no iteration
\* begins and the consumer is handed nothing.
C10_BadStepPanics ==
    /\ (IsRange /\ step <= 0 /\ pc # "call") =>
         (pc \in {"callX", "panic"} /\ iter = 0 /\ out = <<>>)
    /\ (fn = "Spans" /\ stride <= 0) =>
         (pc \in {"call", "panic"} /\ iter = 0 /\ out = <<>>)
    /\ pc = "panic" =>
         \/ IsRange /\ step <= 0
         \/ fn = "Spans" /\ stride <= 0

\* RangeX has panicked on a step of zero between different start and end.
C10_Witness ==
    /\ fn = "RangeX" /\ pc = "panic" /\ step = 0 /\ start # end

\* The targets of the source elements mapper keeps, in source order.
RECURSIVE MapKept(_, _)
MapKept(srcs, m) ==
    IF srcs = <<>> THEN <<>>
    ELSE (IF m[Head(srcs)][2] THEN <<m[Head(srcs)][1]>> ELSE <<>>)
           \o MapKept(Tail(srcs), m)

\* C11: what Map has yielded is a prefix of the targets of the kept source
\* elements in source order, and all of them when run to exhaustion; the
\* mapper has been called on the source elements in order, once each, and
\* on every one of them when run to exhaustion.
C11_MapKeepsInOrder ==
    fn = "Map" =>
      /\ IsPrefix(out, MapKept(args.sources, args.mapper))
      /\ Len(calls) <= Len(args.sources)
      /\ \A c \in 1..Len(calls) : calls[c] = <<args.sources[c]>>
      /\ Exhausted => /\ out = MapKept(args.sources, args.mapper)
                      /\ Len(calls) = Len(args.sources)

\* A complete Map that dropped an element between two it kept.
C11_Witness ==
    /\ fn = "Map" /\ Exhausted
    /\ Len(args.sources) >= 3 /\ Len(out) >= 2
    /\ ~args.mapper[args.sources[2]][2]
    /\ \E s \in Elems : args.mapper[s][1] # s

\* C12: HasPrefix(v, p) never indexes outside v, and it returns true
\* exactly when p is empty or p is no longer than v and v[0:len(p)] equals
\* p element by element.
C12_HasPrefixIff ==
    fn = "HasPrefix" =>
      /\ pc # "panic"
      /\ pc = "done" =>
            LET v == args.values
                p == args.prefix
            IN  result = (\/ p = <<>>
                          \/ /\ Len(p) <= Len(v)
                             /\ \A k \in 1..Len(p) : v[k] = p[k])

\* HasPrefix has returned false for a prefix that starts with all of v and
\* goes on.
C12_Witness ==
    /\ fn = "HasPrefix" /\ pc = "done" /\ result = FALSE
    /\ Len(args.values) >= 1 /\ Len(args.prefix) > Len(args.values)
    /\ \A k \in 1..Len(args.values) : args.values[k] = args.prefix[k]

\* C13: HasSuffix(v, s) never indexes outside v, it returns true exactly
\* when s is empty or s is no longer than v and v[len(v)-len(s):] equals s
\* element by element, and so false whenever s is longer than v.
C13_HasSuffixIff ==
    fn = "HasSuffix" =>
      /\ pc # "panic"
      /\ pc = "done" =>
            LET v == args.values
                s == args.suffix
            IN  /\ result = (\/ s = <<>>
                             \/ /\ Len(s) <= Len(v)
                                /\ \A k \in 1..Len(s) :
                                      v[Len(v) - Len(s) + k] = s[k])
                /\ Len(s) > Len(v) => result = FALSE

\* HasSuffix has returned false for a suffix that ends with all of v and is
\* longer.
C13_Witness ==
    /\ fn = "HasSuffix" /\ pc = "done" /\ result = FALSE
    /\ Len(args.values) >= 1 /\ Len(args.suffix) > Len(args.values)
    /\ \A k \in 1..Len(args.values) :
          args.values[k] = args.suffix[Len(args.suffix) - Len(args.values) + k]

\* The 0-based indices of values whose element equals value (LastIndex) or
\* satisfies found (LastIndexFunc).
MatchingIndices ==
    {k \in 0..(Len(args.values) - 1) :
       IF fn = "LastIndex" THEN args.values[k + 1] = args.value
                           ELSE args.found[args.values[k + 1]]}

\* C14: LastIndex and LastIndexFunc never index outside values; they return
\* -1 exactly when no element matches, and otherwise the highest matching
\* index.
C14_LastIndexIsHighest ==
    fn \in {"LastIndex", "LastIndexFunc"} =>
      /\ pc # "panic"
      /\ pc = "done" =>
            /\ result = -1 <=> MatchingIndices = {}
            /\ result # -1 =>
                  /\ result \in MatchingIndices
                  /\ \A k \in MatchingIndices : k <= result

\* LastIndexFunc has returned the higher of two matching indices, with a
\* non-matching element after it.
C14_Witness ==
    /\ fn = "LastIndexFunc" /\ pc = "done"
    /\ Cardinality(MatchingIndices) >= 2
    /\ result >= 1 /\ result < Len(args.values) - 1

\* The left fold: reduce applied to each element and the accumulator so
\* far, the element first, from the first element on.
RECURSIVE FoldLeft(_, _, _)
FoldLeft(f, s, a) ==
    IF s = <<>> THEN a
    ELSE FoldLeft(f, Tail(s), ApplyReduce(f, Head(s), a))

\* C15: inside Reduce the accumulator is the left fold of the elements
\* passed over so far, reduce taking the element first and the accumulator
\* second; Reduce returns the left fold of all elements, and the initial
\* accumulator for an empty slice.
C15_ReduceFoldsLeft ==
    fn = "Reduce" =>
      /\ pc = "loop" =>
            accumulator = FoldLeft(args.reduce, SubSeq(args.elements, 1, i),
                                   args.accumulator)
      /\ pc = "done" =>
            /\ result = FoldLeft(args.reduce, args.elements, args.accumulator)
            /\ args.elements = <<>> => result = args.accumulator

\* Reduce has folded three elements, not all equal, with a subtraction, and
\* the result differs from the one the swapped argument order would give.
C15_Witness ==
    /\ fn = "Reduce" /\ pc = "done" /\ args.reduce = "sub"
    /\ Len(args.elements) = 3
    /\ args.elements[1] # args.elements[3]
    /\ result # ((args.accumulator - args.elements[1]) - args.elements[2])
                 - args.elements[3]

\* The consumer of a Map, Merge, Zip or ZipLongest sequence has broken out
\* of its loop.
StopSignalled == (IsCombinator \/ fn = "Map") /\ broke

\* C16: once the consumer has signalled stop, no step of Map invokes mapper
\* again and no step of Merge, Zip or ZipLongest pulls from a source or
\* hands over anything more.
C16_NoWorkAfterStop ==
    [][StopSignalled =>
         /\ calls' = calls
         /\ npulls' = npulls
         /\ pos' = pos
         /\ out' = out]_vars

\* Merge was stopped by its consumer while a source still had elements that
\* were never pulled.
C16_Witness ==
    /\ fn = "Merge" /\ broke /\ pc = "done"
    /\ \E k \in 1..N : pos[k] < Len(rfns[k]) /\ npulls[k] = pos[k]

\* The number of elements of source k handed to the consumer so far.
Handed(k) ==
    CASE fn = "Merge" -> Cardinality({p \in 1..Len(from) : from[p] = k})
      [] fn = "Zip" -> Len(out)
      [] OTHER -> IF Len(out) < Len(rfns[k]) THEN Len(out) ELSE Len(rfns[k])

\* The number of elements of source k pulled but not handed to the consumer.
Pending(k) == pos[k] - Handed(k)

\* C17: in Merge, Zip and ZipLongest at most one element per source is
\* pulled but not handed to the consumer; in Merge the only such element is
\* the one about to be yielded, so that no pull happens while one is pending.
C17_OnePendingPerSource ==
    (IsCombinator /\ pc # "ready") =>
      /\ \A k \in 1..N : Pending(k) \in {0, 1}
      /\ fn = "Merge" =>
            \A k \in 1..N :
              Pending(k) = (IF pc = "yield" /\ k = i THEN 1 ELSE 0)

\* Merge holds the second element of its second source, pulled and not yet
\* yielded, after the consumer took three elements.
C17_Witness ==
    /\ fn = "Merge" /\ pc = "yield" /\ N = 2 /\ i = 2
    /\ Len(out) = 3 /\ Pending(2) = 1 /\ Pending(1) = 0

\* The number of pulls of source k when every source has been pulled in
\* rounds 1..r-1 and the sources 1..m in round r; Merge passes over a source
\* in the rounds after the one in which it signalled its end.
PullsInRounds(k, r, m) ==
    LET n == IF k <= m THEN r ELSE r - 1
    IN  IF fn = "Merge" /\ n > Len(rfns[k]) + 1 THEN Len(rfns[k]) + 1 ELSE n

\* C18: the pulls happen round by round and, within a round, in the order
\* the sources were passed: at any moment some round r is in progress, a
\* leading part of the sources has had its turn in round r and the others
\* have not; the row being built by Zip or ZipLongest has one column per
\* source pulled in this round, in source order.
C18_PullsInSourceOrder ==
    (IsCombinator /\ pc # "ready") =>
      /\ \E r \in 1..(MaxLen + 2) : \E m \in 0..N :
            \A k \in 1..N : npulls[k] = PullsInRounds(k, r, m)
      /\ (fn \in {"Zip", "ZipLongest"} /\ pc = "inner") =>
            /\ Len(row) = i - 1
            /\ \A k \in 1..N : npulls[k] = Len(out) + (IF k < i THEN 1 ELSE 0)
            /\ \A k \in 1..Len(row) :
                  row[k] = (IF npulls[k] <= Len(rfns[k])
                              THEN rfns[k][npulls[k]] ELSE Zero)

\* Zip is in its second round: the first source has been pulled twice, the
\* second once, and the row holds the first source's second element, which
\* differs from the second source's.
C18_Witness ==
    /\ fn = "Zip" /\ pc = "inner" /\ N = 2 /\ i = 2
    /\ npulls = <<2, 1>> /\ Len(out) = 1
    /\ Len(rfns[1]) = 2 /\ Len(rfns[2]) = 2
    /\ row = <<rfns[1][2]>> /\ rfns[1][2] # rfns[2][2]

\* C19: Merge pulls source k at most len(k) + 1 times, the last of these
\* pulls being the one that signals the end, after which oks[k] is false and
\* the source is never pulled again; run to exhaustion it pulls every source
\* exactly len(k) + 1 times.
C19_MergeNoPullAfterEnd ==
    (fn = "Merge" /\ pc # "ready") =>
      /\ \A k \in 1..N :
            /\ npulls[k] <= Len(rfns[k]) + 1
            /\ oks[k] <=> npulls[k] <= Len(rfns[k])
      /\ Exhausted => \A k \in 1..N : npulls[k] = Len(rfns[k]) + 1

\* Merge has exhausted two sources of different lengths, the shorter one
\* empty.
C19_Witness ==
    /\ fn = "Merge" /\ Exhausted /\ N = 2
    /\ Len(rfns[1]) = 0 /\ Len(rfns[2]) = MaxLen
    /\ npulls = <<1, MaxLen + 1>>

\* The first source, in the order passed, that no other source is shorter
\* than: the one whose end signal ends Zip.
FirstExhausted ==
    CHOOSE f \in 1..N :
      /\ \A k \in 1..N : Len(rfns[f]) <= Len(rfns[k])
      /\ \A k \in 1..(f - 1) : Len(rfns[f]) < Len(rfns[k])

\* C20: Zip never pulls a source more than once more than the number of rows
\* yielded; when it ends because a source is exhausted, with R rows yielded,
\* the sources up to and including the first exhausted one have been pulled
\* R + 1 times and the sources after it R times.
C20_ZipPullCounts ==
    (fn = "Zip" /\ pc # "ready") =>
      /\ \A k \in 1..N : npulls[k] <= Len(out) + 1
      /\ (Exhausted /\ N >= 1) =>
            \A k \in 1..N :
              npulls[k] = Len(out) + (IF k <= FirstExhausted THEN 1 ELSE 0)

\* Zip ended on the first of two sources after one row; the second source,
\* which has an element left, was not pulled in the last round.
C20_Witness ==
    /\ fn = "Zip" /\ Exhausted /\ N = 2
    /\ Len(rfns[1]) = 1 /\ Len(rfns[2]) = 2
    /\ Len(out) = 1 /\ npulls = <<2, 1>>

====
